---- MODULE Spec2Model ----
(***************************************************************************)
(* Model of the connection wiring of goflow (graph_connect.go): the graph  *)
(* of processes and ports, Graph.ConnectBuf with its helpers, and the      *)
(* reference counter of shared channels.                                   *)
(*                                                                         *)
(* A port text is a sequence of one-character strings, a channel is its    *)
(* index in the sequence of channels allocated so far (0 is the nil        *)
(* channel), and a reflect.Value of channel kind is a record of validity,  *)
(* pointer and static channel type.                                        *)
(***************************************************************************)
EXTENDS Integers, Sequences, FiniteSets, TLC

\* ------------------------------------------------------------------ bounds

\* ConnectBuf calls made in one behaviour
MaxCalls == 3

\* sender processes E1..En that can share one inbound channel, each closing
\* its output from its own goroutine at shutdown
MaxSenders == 4

\* ------------------------------------------------------------ static types

\* reflect.ChanDir as the set of its direction bits; & is intersection
RecvDir == {"recv"}
SendDir == {"send"}
BothDir == {"recv", "send"}

\* the nil error and the failures of ConnectBuf
Nil == "nil"
ProcessNotFound == "process not found"
ProcessNotSettable == "process is not settable"
PortNotFound == "process does not have port"
NotAChannel == "not a channel"
PortWrongDirection == "channel does not support direction"
PortNotAssignable == "port is not assignable"
Panic == "panic"

\* the zero reflect.Value (var channel reflect.Value; reflect.ValueOf(nil))
nilValue == [valid |-> FALSE, ptr |-> 0, dir |-> {}, elem |-> ""]

\* a reflect.Value holding channel ptr with static type chan(dir) elem
ChanValue(ptr, dir, elem) == [valid |-> TRUE, ptr |-> ptr, dir |-> dir, elem |-> elem]

IsValid(v) == v.valid
IsNil(v) == v.ptr = 0

\* ---------------------------------------------------------- the registry
\* The processes registered in n.procs. A leaf process is a struct whose
\* fields are its ports; a field is described by its name, its kind, its
\* channel direction and element type, and whether it is exported (only an
\* exported field of an addressable struct can be set).

Field(name, kind, dir, elem, exported) ==
    [name |-> name, kind |-> kind, dir |-> dir, elem |-> elem, exported |-> exported]

\* the sender processes E1, E2, ...: each has one output port O
SenderProc(i) == "E" \o ToString(i)
SenderProcs == {SenderProc(i) : i \in 1..MaxSenders}

\* the fields of the process structs, by process name
Fields(procName) ==
    CASE procName = "A" -> {Field(<<"O">>, "chan", SendDir, "int", TRUE)}
      [] procName = "C" -> {Field(<<"O">>, "chan", BothDir, "int", TRUE),
                            Field(<<"q">>, "chan", SendDir, "int", FALSE)}
      [] procName = "B" -> {Field(<<"I">>, "chan", RecvDir, "int", TRUE),
                            Field(<<"S">>, "chan", RecvDir, "string", TRUE),
                            Field(<<"K">>, "int", {}, "", TRUE),
                            Field(<<"p">>, "chan", RecvDir, "int", FALSE)}
      [] procName = "V" -> {Field(<<"I">>, "chan", RecvDir, "int", TRUE)}
      [] procName = "M" -> {Field(<<"I">>, "chan", RecvDir, "int", TRUE)}
      [] procName \in SenderProcs -> {Field(<<"O">>, "chan", SendDir, "int", TRUE)}
      [] OTHER -> {}

\* n.procs: process name -> how the process was registered. "ptr" is a
\* pointer to a process struct, "value" a struct stored by value (its
\* reflect.Value cannot be set), "net" a pointer to a Graph (a subnet).
\* M is the process inside the subnet N; it is not registered in n.procs.
procs ==
    [pn \in {"A", "B", "C", "V", "N"} \cup SenderProcs |->
        CASE pn = "V" -> "value" [] pn = "N" -> "net" [] OTHER -> "ptr"]

\* The inports of the subnet N: port name -> the process and field of the
\* subnet it is mapped to.
inPorts(procName) ==
    IF procName = "N"
    THEN {[name |-> <<"I", "[", "1", "]">>, proc |-> "M", port |-> <<"I">>]}
    ELSE {}

\* the outports of the subnet N
outPorts(procName) == {}

\* the names of the process structs that exist (M inside the subnet N)
Structs == {"A", "B", "C", "V", "M"} \cup SenderProcs

\* the port slots of the network: <<process, field name>>
Slots == UNION {{<<pn, f.name>> : f \in Fields(pn)} : pn \in Structs}

\* ------------------------------------------------------------------ state

VARIABLES
    slots,               \* slot -> channel held by the port field (0 = nil)
    connections,         \* n.connections
    chanListenersCount,  \* n.chanListenersCount: channel pointer -> count
    chans,               \* the channels made so far: index -> [elem, cap]
    result,              \* what the last ConnectBuf call returned
    calls,               \* number of ConnectBuf calls made
    chanListenersCountLock, \* n.chanListenersCountLock: the holder, 0 if free
    lockOrder,           \* the goroutines in the order they took the lock
    decPc,               \* goroutine -> where it is in decChanListenersCount
    decCnt,              \* goroutine -> its local cnt
    decRet,              \* goroutine -> what its call returned
    parseArgs,           \* the arguments of a parseAddress call
    parseRet,            \* the address the parseAddress call returned
    parsePc,             \* where the parseAddress call is
    lastOp,              \* the last call on the count table and its result
    ops,                 \* number of calls made on the count table
    serialized,          \* whether the callers wrap ConnectBuf in one lock
    graphLock,           \* that graph-wide lock: the holder, 0 if free
    cArgs,               \* goroutine -> the arguments of its ConnectBuf call
    cPc,                 \* goroutine -> where it is in ConnectBuf
    cLoc                 \* goroutine -> the locals of its ConnectBuf call

graphVars == <<slots, connections, chanListenersCount, chans, result, calls>>
decVars == <<chanListenersCountLock, lockOrder, decPc, decCnt, decRet>>
parseVars == <<parseArgs, parseRet, parsePc>>
countVars == <<lastOp, ops>>
concVars == <<serialized, graphLock, cArgs, cPc, cLoc>>
vars == <<graphVars, decVars, parseVars, countVars, concVars>>

\* the graph as one value
Graph == [slots |-> slots, connections |-> connections,
          chanListenersCount |-> chanListenersCount, chans |-> chans]

\* the graph after construction: no port wired, nothing recorded
NewGraph == [slots |-> [s \in Slots |-> 0], connections |-> << >>,
             chanListenersCount |-> << >>, chans |-> << >>]

\* --------------------------------------------------------------- address

\* the loop of parseAddress splitting at the first '[' only
RECURSIVE parseLoop_FirstOnly(_, _, _, _, _)
parseLoop_FirstOnly(port, i, keyPos, nport, key) ==
    IF i >= Len(port) THEN [port |-> nport, key |-> key]
    ELSE LET r == port[i + 1]
             first == r = "[" /\ keyPos = 0
             keyPos1 == IF first THEN i + 1 ELSE keyPos
             nport1 == IF first THEN SubSeq(port, 1, i) ELSE nport
             key1 == IF r = "]" THEN SubSeq(port, keyPos1 + 1, i) ELSE key
         IN parseLoop_FirstOnly(port, i + 1, keyPos1, nport1, key1)

\* the loop of parseAddress from byte i (0-based) on; n.port is nport
RECURSIVE parseLoop(_, _, _, _, _)
parseLoop(port, i, keyPos, nport, key) ==
    IF i >= Len(port) THEN [port |-> nport, key |-> key]
    ELSE LET r == port[i + 1]
             keyPos1 == IF r = "[" THEN i + 1 ELSE keyPos
             nport1 == IF r = "[" THEN SubSeq(port, 1, i) ELSE nport
             key1 == IF r = "]" THEN SubSeq(port, keyPos1 + 1, i) ELSE key
         IN parseLoop(port, i + 1, keyPos1, nport1, key1)

\* parseAddress that stores the key of a plain name[key] text wrongly: the
\* key keeps its closing bracket
parseAddress_KeyToEnd(proc, port) ==
    LET n == parseLoop(port, 0, 0, port, << >>)
    IN [proc |-> proc, port |-> n.port,
        key |-> IF n.key = << >> THEN n.key ELSE Append(n.key, "]")]

parseAddress(proc, port) ==
    LET n == parseLoop(port, 0, 0, port, << >>)
    IN [proc |-> proc, port |-> n.port, key |-> n.key]

\* ------------------------------------------------------------- resolver

\* the reflect.Value of a field of a struct: the slot and its static type
PortValue(procName, f) ==
    [slot |-> <<procName, f.name>>, kind |-> f.kind, dir |-> f.dir,
     elem |-> f.elem, canSet |-> f.exported]

\* val.FieldByName(portName): the fields of that name (none or one)
FieldByName(procName, portName) == {f \in Fields(procName) : f.name = portName}

\* Graph.getOutPort / Graph.getInPort of the subnet: the ports mapped
\* under that name (none or one)
getOutPort(procName, portName) == {p \in outPorts(procName) : p.name = portName}
getInPort(procName, portName) == {p \in inPorts(procName) : p.name = portName}

\* getProcPort looking the port up before it checks that the process can
\* be set
getProcPort_PortFirst(procName, portName, dir) ==
    IF procName \notin DOMAIN procs
    THEN [err |-> ProcessNotFound]
    ELSE IF procs[procName] = "net"
    THEN LET found == IF dir = SendDir THEN getOutPort(procName, portName)
                                        ELSE getInPort(procName, portName)
         IN IF found = {} THEN [err |-> PortNotFound]
            ELSE LET p == CHOOSE p \in found : TRUE
                     f == CHOOSE f \in FieldByName(p.proc, p.port) : TRUE
                 IN [err |-> Nil, port |-> PortValue(p.proc, f)]
    ELSE LET found == FieldByName(procName, portName)
         IN IF found = {} THEN [err |-> PortNotFound]
            ELSE IF procs[procName] = "value" THEN [err |-> ProcessNotSettable]
            ELSE [err |-> Nil, port |-> PortValue(procName, CHOOSE f \in found : TRUE)]

getProcPort(procName, portName, dir) ==
    IF procName \notin DOMAIN procs
    THEN [err |-> ProcessNotFound]
    ELSE IF procs[procName] = "value"
    THEN [err |-> ProcessNotSettable]
    ELSE IF procs[procName] = "net"
    THEN LET found == IF dir = SendDir THEN getOutPort(procName, portName)
                                        ELSE getInPort(procName, portName)
         IN IF found = {} THEN [err |-> PortNotFound]
            ELSE LET p == CHOOSE p \in found : TRUE
                     f == CHOOSE f \in FieldByName(p.proc, p.port) : TRUE
                 IN [err |-> Nil, port |-> PortValue(p.proc, f)]
    ELSE LET found == FieldByName(procName, portName)
         IN IF found = {} THEN [err |-> PortNotFound]
            ELSE [err |-> Nil, port |-> PortValue(procName, CHOOSE f \in found : TRUE)]

\* -------------------------------------------------------- channel reuse

\* index of the first connection whose src (SendDir) or tgt (otherwise)
\* equals addr, 0 if there is none
RECURSIVE firstMatch(_, _, _, _)
firstMatch(conns, addr, dir, i) ==
    IF i > Len(conns) THEN 0
    ELSE LET a == IF dir = SendDir THEN conns[i].src ELSE conns[i].tgt
         IN IF a = addr THEN i ELSE firstMatch(conns, addr, dir, i + 1)

\* findExistingChan with src and tgt taken for each other
findExistingChan_Swapped(conns, addr, dir) ==
    LET i == firstMatch(conns, addr, IF dir = SendDir THEN RecvDir ELSE SendDir, 1)
    IN IF i = 0 THEN nilValue ELSE conns[i].channel

findExistingChan(conns, addr, dir) ==
    LET i == firstMatch(conns, addr, dir, 1)
    IN IF i = 0 THEN nilValue ELSE conns[i].channel

\* ---------------------------------------------------- reference counter

\* n.chanListenersCount[ptr]: a missing key reads as 0
CountOf(m, ptr) == IF ptr \in DOMAIN m THEN m[ptr] ELSE 0

\* n.chanListenersCount[ptr] = cnt
CountPut(m, ptr, cnt) ==
    [q \in DOMAIN m \cup {ptr} |-> IF q = ptr THEN cnt ELSE m[q]]

\* incChanListenersCount that increments cnt and does not store it
incChanListenersCount_NotStored(m, c) == m

\* the table after incChanListenersCount(c), run under its lock
incChanListenersCount(m, c) == CountPut(m, c.ptr, CountOf(m, c.ptr) + 1)

\* decChanListenersCount without the test for a count of 0
decChanListenersCount_NoZeroTest(m, c) ==
    LET cnt == CountOf(m, c.ptr)
    IN [m |-> CountPut(m, c.ptr, cnt - 1), ret |-> cnt - 1 = 0]

\* decChanListenersCount(c), run under its lock: the table after it and
\* what it returns
decChanListenersCount(m, c) ==
    LET cnt == CountOf(m, c.ptr)
    IN IF cnt = 0 THEN [m |-> m, ret |-> TRUE]
       ELSE [m |-> CountPut(m, c.ptr, cnt - 1), ret |-> cnt - 1 = 0]

\* ---------------------------------------------------------------- attach

\* validateChanDir that checks the kind and not the direction
validateChanDir_KindOnly(port, dir) ==
    IF port.kind # "chan" THEN NotAChannel ELSE Nil

validateChanDir(port, dir) ==
    IF port.kind # "chan" THEN NotAChannel
    ELSE IF port.dir \cap dir = {} THEN PortWrongDirection
    ELSE Nil

validateCanSet(port) == IF ~port.canSet THEN PortNotAssignable ELSE Nil

\* selectOrMakeChan that makes the channel unbuffered whatever bufSize is
selectOrMakeChan_Unbuffered(g, new, existing, bufSize) ==
    IF ~IsValid(new) \/ IsNil(new)
    THEN IF g.slots[existing.slot] # 0
         THEN [panic |-> FALSE, chans |-> g.chans,
               ch |-> ChanValue(g.slots[existing.slot], existing.dir, existing.elem)]
         ELSE IF bufSize < 0
         THEN [panic |-> TRUE, chans |-> g.chans, ch |-> new]
         ELSE [panic |-> FALSE,
               chans |-> Append(g.chans, [elem |-> existing.elem, cap |-> 0]),
               ch |-> ChanValue(Len(g.chans) + 1, BothDir, existing.elem)]
    ELSE [panic |-> FALSE, chans |-> g.chans, ch |-> new]

\* selectOrMakeChan(new, existing, bufSize) on graph g: the channel value it
\* returns and the channels made; reflect.MakeChan panics on a negative size
selectOrMakeChan(g, new, existing, bufSize) ==
    IF ~IsValid(new) \/ IsNil(new)
    THEN IF g.slots[existing.slot] # 0
         THEN [panic |-> FALSE, chans |-> g.chans,
               ch |-> ChanValue(g.slots[existing.slot], existing.dir, existing.elem)]
         ELSE IF bufSize < 0
         THEN [panic |-> TRUE, chans |-> g.chans, ch |-> new]
         ELSE [panic |-> FALSE,
               chans |-> Append(g.chans, [elem |-> existing.elem, cap |-> bufSize]),
               ch |-> ChanValue(Len(g.chans) + 1, BothDir, existing.elem)]
    ELSE [panic |-> FALSE, chans |-> g.chans, ch |-> new]

\* whether port.Set(ch) is allowed: the type of ch is assignable to the type
\* of the port (same element type; same direction or ch bidirectional)
Assignable(ch, port) ==
    ch.elem = port.elem /\ (ch.dir = port.dir \/ ch.dir = BothDir)

\* attachPort that selects the channel and does not set the port
attachPort_NotSet(g, port, dir, ch, bufSize) ==
    IF validateChanDir(port, dir) # Nil
    THEN [err |-> validateChanDir(port, dir), ch |-> ch, g |-> g]
    ELSE IF validateCanSet(port) # Nil
    THEN [err |-> validateCanSet(port), ch |-> ch, g |-> g]
    ELSE LET sel == selectOrMakeChan(g, ch, port, bufSize)
         IN IF sel.panic \/ ~Assignable(sel.ch, port)
            THEN [err |-> Panic, ch |-> sel.ch, g |-> g]
            ELSE [err |-> Nil, ch |-> sel.ch, g |-> [g EXCEPT !.chans = sel.chans]]

\* attachPort(port, dir, ch, bufSize) on graph g: error, channel, graph after
attachPort(g, port, dir, ch, bufSize) ==
    IF validateChanDir(port, dir) # Nil
    THEN [err |-> validateChanDir(port, dir), ch |-> ch, g |-> g]
    ELSE IF validateCanSet(port) # Nil
    THEN [err |-> validateCanSet(port), ch |-> ch, g |-> g]
    ELSE LET sel == selectOrMakeChan(g, ch, port, bufSize)
         IN IF sel.panic \/ ~Assignable(sel.ch, port)
            THEN [err |-> Panic, ch |-> sel.ch, g |-> g]
            ELSE [err |-> Nil, ch |-> sel.ch,
                  g |-> [g EXCEPT !.chans = sel.chans,
                                  !.slots[port.slot] = sel.ch.ptr]]

\* -------------------------------------------------------------- connect

\* what a ConnectBuf call leaves: the graph, the error returned (Nil, an
\* error kind, or Panic when the call did not return) and the endpoint
\* the error is about
Return(g, err, at) == [g |-> g, err |-> err, at |-> at]

\* ConnectBuf that looks for the receiver's channel before the sender's
ConnectBuf_ReceiverFirst(g, senderName, senderPort, receiverName, receiverPort, bufferSize) ==
    LET sendAddr == parseAddress(senderName, senderPort)
        sp == getProcPort(senderName, senderPort, SendDir)
        recvAddr == parseAddress(receiverName, receiverPort)
        rp == getProcPort(receiverName, receiverPort, RecvDir)
        shared == findExistingChan(g.connections, recvAddr, RecvDir)
        fanIn == IsValid(shared) /\ ~IsNil(shared)
        found == findExistingChan(g.connections, sendAddr, SendDir)
        none == ~IsValid(found) \/ IsNil(found)
        isNewChan == none /\ ~fanIn
        ch == IF fanIn THEN shared ELSE found
        g1 == IF fanIn
              THEN [g EXCEPT !.chanListenersCount = incChanListenersCount(@, ch)]
              ELSE g
        snd == attachPort(g1, sp.port, SendDir, ch, bufferSize)
        rcv == attachPort(snd.g, rp.port, RecvDir, snd.ch, bufferSize)
        g2 == IF isNewChan
              THEN [rcv.g EXCEPT !.chanListenersCount = incChanListenersCount(@, snd.ch)]
              ELSE rcv.g
    IN IF sp.err # Nil THEN Return(g, sp.err, "sender")
       ELSE IF rp.err # Nil THEN Return(g, rp.err, "receiver")
       ELSE IF snd.err # Nil THEN Return(snd.g, snd.err, "sender")
       ELSE IF rcv.err # Nil THEN Return(rcv.g, rcv.err, "receiver")
       ELSE Return([g2 EXCEPT !.connections =
                        Append(@, [src |-> sendAddr, tgt |-> recvAddr,
                                   channel |-> snd.ch, buffer |-> bufferSize])],
                   Nil, "none")

\* ConnectBuf that records the Connection before it attaches the receiver
ConnectBuf_RecordsEarly(g, senderName, senderPort, receiverName, receiverPort, bufferSize) ==
    LET sendAddr == parseAddress(senderName, senderPort)
        sp == getProcPort(senderName, senderPort, SendDir)
        recvAddr == parseAddress(receiverName, receiverPort)
        rp == getProcPort(receiverName, receiverPort, RecvDir)
        found == findExistingChan(g.connections, sendAddr, SendDir)
        none == ~IsValid(found) \/ IsNil(found)
        shared == findExistingChan(g.connections, recvAddr, RecvDir)
        fanIn == none /\ IsValid(shared) /\ ~IsNil(shared)
        isNewChan == none /\ ~fanIn
        ch == IF none THEN shared ELSE found
        g1 == IF fanIn
              THEN [g EXCEPT !.chanListenersCount = incChanListenersCount(@, ch)]
              ELSE g
        snd == attachPort(g1, sp.port, SendDir, ch, bufferSize)
        rcv == attachPort(snd.g, rp.port, RecvDir, snd.ch, bufferSize)
        g2 == IF isNewChan
              THEN [rcv.g EXCEPT !.chanListenersCount = incChanListenersCount(@, snd.ch)]
              ELSE rcv.g
    IN IF sp.err # Nil THEN Return(g, sp.err, "sender")
       ELSE IF rp.err # Nil THEN Return(g, rp.err, "receiver")
       ELSE IF snd.err # Nil THEN Return(snd.g, snd.err, "sender")
       ELSE IF rcv.err # Nil
       THEN Return([rcv.g EXCEPT !.connections =
                        Append(@, [src |-> sendAddr, tgt |-> recvAddr,
                                   channel |-> snd.ch, buffer |-> bufferSize])],
                   rcv.err, "receiver")
       ELSE Return([g2 EXCEPT !.connections =
                        Append(@, [src |-> sendAddr, tgt |-> recvAddr,
                                   channel |-> snd.ch, buffer |-> bufferSize])],
                   Nil, "none")

ConnectBuf(g, senderName, senderPort, receiverName, receiverPort, bufferSize) ==
    LET sendAddr == parseAddress(senderName, senderPort)
        sp == getProcPort(senderName, senderPort, SendDir)
        recvAddr == parseAddress(receiverName, receiverPort)
        rp == getProcPort(receiverName, receiverPort, RecvDir)
        found == findExistingChan(g.connections, sendAddr, SendDir)
        none == ~IsValid(found) \/ IsNil(found)
        shared == findExistingChan(g.connections, recvAddr, RecvDir)
        fanIn == none /\ IsValid(shared) /\ ~IsNil(shared)
        isNewChan == none /\ ~fanIn
        ch == IF none THEN shared ELSE found
        g1 == IF fanIn
              THEN [g EXCEPT !.chanListenersCount = incChanListenersCount(@, ch)]
              ELSE g
        snd == attachPort(g1, sp.port, SendDir, ch, bufferSize)
        rcv == attachPort(snd.g, rp.port, RecvDir, snd.ch, bufferSize)
        g2 == IF isNewChan
              THEN [rcv.g EXCEPT !.chanListenersCount = incChanListenersCount(@, snd.ch)]
              ELSE rcv.g
    IN IF sp.err # Nil THEN Return(g, sp.err, "sender")
       ELSE IF rp.err # Nil THEN Return(g, rp.err, "receiver")
       ELSE IF snd.err # Nil THEN Return(snd.g, snd.err, "sender")
       ELSE IF rcv.err # Nil THEN Return(rcv.g, rcv.err, "receiver")
       ELSE Return([g2 EXCEPT !.connections =
                        Append(@, [src |-> sendAddr, tgt |-> recvAddr,
                                   channel |-> snd.ch, buffer |-> bufferSize])],
                   Nil, "none")

\* ---------------------------------------------------------------- inputs

\* the endpoints <<process name, port text>> the calls name as sender
Senders ==
    {<<"A", <<"O">> >>, <<"C", <<"O">> >>, <<"B", <<"I">> >>, <<"B", <<"K">> >>,
     <<"C", <<"q">> >>, <<"X", <<"O">> >>, <<"V", <<"Z">> >>, <<"A", <<"Z">> >>}

\* the endpoints the calls name as receiver
Receivers ==
    {<<"B", <<"I">> >>, <<"C", <<"O">> >>, <<"A", <<"O">> >>,
     <<"B", <<"S">> >>, <<"B", <<"K">> >>, <<"B", <<"p">> >>, <<"B", <<"Z">> >>,
     <<"X", <<"I">> >>, <<"V", <<"I">> >>, <<"N", <<"I", "[", "1", "]">> >>}

\* the buffer sizes the calls ask for: unbuffered and buffered
BufferSizes == {0, 2}

\* ---------------------------------------------------------------- actions

\* the goroutines of the sender processes E1, E2, ...
Goroutines == 1..MaxSenders

\* no goroutine has called decChanListenersCount
DecIdle ==
    /\ chanListenersCountLock = 0
    /\ lockOrder = << >>
    /\ decPc = [t \in Goroutines |-> "off"]
    /\ decCnt = [t \in Goroutines |-> 0]
    /\ decRet = [t \in Goroutines |-> FALSE]

\* no parseAddress call is followed step by step
ParseIdle ==
    /\ parseArgs = [proc |-> "", port |-> << >>]
    /\ parseRet = [proc |-> "", port |-> << >>, key |-> << >>]
    /\ parsePc = "off"

\* no call on the count table is followed
CountIdle ==
    /\ lastOp = [op |-> "none", ch |-> 0, ret |-> FALSE]
    /\ ops = 0

\* no goroutine runs ConnectBuf concurrently with another
ConcIdle ==
    /\ serialized = FALSE
    /\ graphLock = 0
    /\ cArgs = << >>
    /\ cPc = << >>
    /\ cLoc = << >>

Init ==
    /\ slots = NewGraph.slots
    /\ connections = NewGraph.connections
    /\ chanListenersCount = NewGraph.chanListenersCount
    /\ chans = NewGraph.chans
    /\ result = [err |-> Nil, at |-> "none"]
    /\ calls = 0
    /\ DecIdle
    /\ ParseIdle
    /\ CountIdle
    /\ ConcIdle

\* one call n.ConnectBuf(senderName, senderPort, receiverName, receiverPort,
\* bufferSize); a call that panics leaves the graph as it was at the panic
\* (the caller may recover and go on)
Connect(s, r, bufferSize) ==
    /\ calls < MaxCalls
    /\ LET ret == ConnectBuf(Graph, s[1], s[2], r[1], r[2], bufferSize)
       IN /\ slots' = ret.g.slots
          /\ connections' = ret.g.connections
          /\ chanListenersCount' = ret.g.chanListenersCount
          /\ chans' = ret.g.chans
          /\ result' = [err |-> ret.err, at |-> ret.at]
    /\ calls' = calls + 1
    /\ UNCHANGED <<decVars, parseVars, countVars, concVars>>

Next == \E s \in Senders, r \in Receivers, b \in BufferSizes : Connect(s, r, b)

Spec == Init /\ [][Next]_vars

\* ------------------------------------------------- concurrent decrements
\* Shutdown of a fan-in: the senders E1..En are wired to B.I one after the
\* other, then each sender's goroutine calls decChanListenersCount once on
\* the channel in its output slot. The calls run concurrently.

\* the graph after wiring the first k sender processes to B.I
RECURSIVE FanIn(_)
FanIn(k) ==
    IF k = 0 THEN NewGraph
    ELSE ConnectBuf(FanIn(k - 1), SenderProc(k), <<"O">>, "B", <<"I">>, 0).g

\* the channel goroutine t passes to decChanListenersCount
OutChan(t) == ChanValue(slots[<<SenderProc(t), <<"O">> >>], SendDir, "int")

InitDec ==
    \E k \in 1..MaxSenders :
        /\ slots = FanIn(k).slots
        /\ connections = FanIn(k).connections
        /\ chanListenersCount = FanIn(k).chanListenersCount
        /\ chans = FanIn(k).chans
        /\ result = [err |-> Nil, at |-> "none"]
        /\ calls = k
        /\ chanListenersCountLock = 0
        /\ lockOrder = << >>
        /\ decPc = [t \in Goroutines |-> IF t <= k THEN "call" ELSE "off"]
        /\ decCnt = [t \in Goroutines |-> 0]
        /\ decRet = [t \in Goroutines |-> FALSE]
        /\ ParseIdle
        /\ CountIdle
        /\ ConcIdle

\* a Lock that never waits
LockFree_Always(holder) == TRUE

\* sync.Mutex.Lock returns only when no goroutine holds the mutex
LockFree(holder) == holder = 0

\* n.chanListenersCountLock.Lock()
DecLock(t) ==
    /\ decPc[t] = "call"
    /\ LockFree(chanListenersCountLock)
    /\ chanListenersCountLock' = t
    /\ lockOrder' = Append(lockOrder, t)
    /\ decPc' = [decPc EXCEPT ![t] = "locked"]
    /\ UNCHANGED <<graphVars, decCnt, decRet, parseVars, countVars, concVars>>

\* ptr := c.Pointer(); cnt := n.chanListenersCount[ptr]
DecRead(t) ==
    /\ decPc[t] = "locked"
    /\ decCnt' = [decCnt EXCEPT ![t] = CountOf(chanListenersCount, OutChan(t).ptr)]
    /\ decPc' = [decPc EXCEPT ![t] = "read"]
    /\ UNCHANGED <<graphVars, chanListenersCountLock, lockOrder, decRet,
                   parseVars, countVars, concVars>>

\* if cnt == 0 { return true }; cnt--; n.chanListenersCount[ptr] = cnt;
\* return cnt == 0, and the deferred Unlock
DecReturn(t) ==
    /\ decPc[t] = "read"
    /\ IF decCnt[t] = 0
       THEN /\ decRet' = [decRet EXCEPT ![t] = TRUE]
            /\ UNCHANGED <<chanListenersCount, decCnt>>
       ELSE /\ decCnt' = [decCnt EXCEPT ![t] = @ - 1]
            /\ chanListenersCount' =
                   CountPut(chanListenersCount, OutChan(t).ptr, decCnt[t] - 1)
            /\ decRet' = [decRet EXCEPT ![t] = (decCnt[t] - 1 = 0)]
    /\ chanListenersCountLock' = IF chanListenersCountLock = t THEN 0
                                 ELSE chanListenersCountLock
    /\ decPc' = [decPc EXCEPT ![t] = "done"]
    /\ UNCHANGED <<slots, connections, chans, result, calls, lockOrder,
                   parseVars, countVars, concVars>>

NextDec == \E t \in Goroutines : DecLock(t) \/ DecRead(t) \/ DecReturn(t)

SpecDec == InitDec /\ [][NextDec]_vars

\* ------------------------------------------------------ address parsing
\* One call parseAddress(proc, port) on any port text over an alphabet
\* that has the two brackets, a letter and a digit.

\* longest port text parsed
MaxLen == 7

Alphabet == {"a", "1", "[", "]"}

\* the port texts: every string over the alphabet up to the longest
Texts == UNION {[1..n -> Alphabet] : n \in 0..MaxLen}

\* the process names passed along
ParseProcs == {"P", "Q"}

InitParse ==
    /\ slots = NewGraph.slots
    /\ connections = NewGraph.connections
    /\ chanListenersCount = NewGraph.chanListenersCount
    /\ chans = NewGraph.chans
    /\ result = [err |-> Nil, at |-> "none"]
    /\ calls = 0
    /\ DecIdle
    /\ CountIdle
    /\ ConcIdle
    /\ parseArgs \in {[proc |-> p, port |-> t] : p \in ParseProcs, t \in Texts}
    /\ parseRet = [proc |-> "", port |-> << >>, key |-> << >>]
    /\ parsePc = "call"

\* the call runs and returns its address
Parse ==
    /\ parsePc = "call"
    /\ parseRet' = parseAddress(parseArgs.proc, parseArgs.port)
    /\ parsePc' = "done"
    /\ UNCHANGED <<graphVars, decVars, parseArgs, countVars, concVars>>

NextParse == Parse

SpecParse == InitParse /\ [][NextParse]_vars

\* ------------------------------------------------------ the count table
\* Any sequence of incChanListenersCount and decChanListenersCount calls
\* on a new graph, one after the other, on any of a few channels.

\* calls made on the table in one behaviour
MaxOps == 5

\* the channels the calls are made on, by pointer
CountChans == {1, 2}

InitCount ==
    /\ slots = NewGraph.slots
    /\ connections = NewGraph.connections
    /\ chanListenersCount = NewGraph.chanListenersCount
    /\ chans = NewGraph.chans
    /\ result = [err |-> Nil, at |-> "none"]
    /\ calls = 0
    /\ DecIdle
    /\ ParseIdle
    /\ CountIdle
    /\ ConcIdle

\* n.incChanListenersCount(c)
IncCount(c) ==
    /\ ops < MaxOps
    /\ chanListenersCount' =
           incChanListenersCount(chanListenersCount, ChanValue(c, BothDir, "int"))
    /\ lastOp' = [op |-> "inc", ch |-> c, ret |-> FALSE]
    /\ ops' = ops + 1
    /\ UNCHANGED <<slots, connections, chans, result, calls,
                   decVars, parseVars, concVars>>

\* n.decChanListenersCount(c)
DecCount(c) ==
    /\ ops < MaxOps
    /\ LET d == decChanListenersCount(chanListenersCount, ChanValue(c, BothDir, "int"))
       IN /\ chanListenersCount' = d.m
          /\ lastOp' = [op |-> "dec", ch |-> c, ret |-> d.ret]
    /\ ops' = ops + 1
    /\ UNCHANGED <<slots, connections, chans, result, calls,
                   decVars, parseVars, concVars>>

NextCount == \E c \in CountChans : IncCount(c) \/ DecCount(c)

SpecCount == InitCount /\ [][NextCount]_vars

\* ------------------------------------------------- concurrent connects
\* Goroutines that each make one ConnectBuf call on the same new graph.
\* A call is followed through its reads and writes of the shared graph: the
\* connection list (read by findExistingChan and by append, written by the
\* assignment of append's result), the port slots (read by selectOrMakeChan,
\* written by port.Set) and the count table (under its lock). A read or a
\* write of one of these is one step. When the callers serialize, each
\* call runs between Lock and Unlock of one graph-wide mutex.

\* goroutines calling ConnectBuf
MaxWorkers == 2

Workers == 1..MaxWorkers

\* the calls the goroutines make: sender, receiver, buffer size
ConcCalls ==
    {[s |-> s, r |-> r, b |-> 0] :
        s \in {<<"A", <<"O">> >>, <<"C", <<"O">> >>},
        r \in {<<"B", <<"I">> >>, <<"N", <<"I", "[", "1", "]">> >>}}

\* the locals of a call before it runs
NoLocals ==
    [ch |-> nilValue, isNewChan |-> FALSE, conns |-> << >>, err |-> Nil,
     appended |-> FALSE]

InitConc ==
    /\ slots = NewGraph.slots
    /\ connections = NewGraph.connections
    /\ chanListenersCount = NewGraph.chanListenersCount
    /\ chans = NewGraph.chans
    /\ result = [err |-> Nil, at |-> "none"]
    /\ calls = 0
    /\ DecIdle
    /\ ParseIdle
    /\ CountIdle
    /\ serialized \in BOOLEAN
    /\ graphLock = 0
    /\ cArgs \in [Workers -> ConcCalls]
    /\ cPc = [t \in Workers |-> "call"]
    /\ cLoc = [t \in Workers |-> NoLocals]

\* the resolved ports and the parsed addresses of the call of goroutine t
SendPortOf(t) == getProcPort(cArgs[t].s[1], cArgs[t].s[2], SendDir)
RecvPortOf(t) == getProcPort(cArgs[t].r[1], cArgs[t].r[2], RecvDir)
SendAddrOf(t) == parseAddress(cArgs[t].s[1], cArgs[t].s[2])
RecvAddrOf(t) == parseAddress(cArgs[t].r[1], cArgs[t].r[2])

\* goroutine t goes on at pc with locals loc
Goes(t, pc, loc) ==
    /\ cPc' = [cPc EXCEPT ![t] = pc]
    /\ cLoc' = [cLoc EXCEPT ![t] = loc]

\* the call of goroutine t ends with err (a panic is recovered by the caller)
Fails(t, err) == Goes(t, "return", [cLoc[t] EXCEPT !.err = err])

\* the caller takes the graph-wide lock, when the callers serialize
CLock(t) ==
    /\ cPc[t] = "call"
    /\ serialized => LockFree(graphLock)
    /\ graphLock' = IF serialized THEN t ELSE graphLock
    /\ cPc' = [cPc EXCEPT ![t] = "findSend"]
    /\ UNCHANGED <<graphVars, decVars, parseVars, countVars, serialized, cArgs, cLoc>>

\* lines 48-63: parse and resolve both endpoints, then
\* ch := n.findExistingChan(sendAddr, reflect.SendDir)
CFindSend(t) ==
    /\ cPc[t] = "findSend"
    /\ LET found == findExistingChan(connections, SendAddrOf(t), SendDir)
       IN IF SendPortOf(t).err # Nil THEN Fails(t, SendPortOf(t).err)
          ELSE IF RecvPortOf(t).err # Nil THEN Fails(t, RecvPortOf(t).err)
          ELSE Goes(t, IF ~IsValid(found) \/ IsNil(found) THEN "findRecv"
                                                          ELSE "selectSend",
                    [cLoc[t] EXCEPT !.ch = found])
    /\ UNCHANGED <<graphVars, decVars, parseVars, countVars, serialized, graphLock, cArgs>>

\* lines 67-73: ch = n.findExistingChan(recvAddr, reflect.RecvDir)
CFindRecv(t) ==
    /\ cPc[t] = "findRecv"
    /\ LET shared == findExistingChan(connections, RecvAddrOf(t), RecvDir)
       IN IF IsValid(shared) /\ ~IsNil(shared)
          THEN Goes(t, "incShared", [cLoc[t] EXCEPT !.ch = shared])
          ELSE Goes(t, "selectSend", [cLoc[t] EXCEPT !.ch = shared, !.isNewChan = TRUE])
    /\ UNCHANGED <<graphVars, decVars, parseVars, countVars, serialized, graphLock, cArgs>>

\* line 70: n.incChanListenersCount(ch), under the lock of the table
CIncShared(t) ==
    /\ cPc[t] = "incShared"
    /\ LockFree(chanListenersCountLock)
    /\ chanListenersCount' = incChanListenersCount(chanListenersCount, cLoc[t].ch)
    /\ cPc' = [cPc EXCEPT ![t] = "selectSend"]
    /\ UNCHANGED <<slots, connections, chans, result, calls, decVars, parseVars,
                   countVars, serialized, graphLock, cArgs, cLoc>>

\* line 75, attachPort lines 144-150: validate the sender port, then
\* selectOrMakeChan reads the slot and makes a channel if it has to
CSelectSend(t) ==
    /\ cPc[t] = "selectSend"
    /\ LET port == SendPortOf(t).port
           sel == selectOrMakeChan(Graph, cLoc[t].ch, port, cArgs[t].b)
       IN IF validateChanDir(port, SendDir) # Nil
          THEN Fails(t, validateChanDir(port, SendDir)) /\ chans' = chans
          ELSE IF validateCanSet(port) # Nil
          THEN Fails(t, validateCanSet(port)) /\ chans' = chans
          ELSE IF sel.panic
          THEN Fails(t, Panic) /\ chans' = chans
          ELSE Goes(t, "setSend", [cLoc[t] EXCEPT !.ch = sel.ch]) /\ chans' = sel.chans
    /\ UNCHANGED <<slots, connections, chanListenersCount, result, calls, decVars,
                   parseVars, countVars, serialized, graphLock, cArgs>>

\* attachPort line 151 for the sender: port.Set(ch)
CSetSend(t) ==
    /\ cPc[t] = "setSend"
    /\ LET port == SendPortOf(t).port
       IN IF ~Assignable(cLoc[t].ch, port)
          THEN Fails(t, Panic) /\ slots' = slots
          ELSE /\ Goes(t, "attachRecv", cLoc[t])
               /\ slots' = [slots EXCEPT ![port.slot] = cLoc[t].ch.ptr]
    /\ UNCHANGED <<connections, chanListenersCount, chans, result, calls, decVars,
                   parseVars, countVars, serialized, graphLock, cArgs>>

\* line 80: attachPort(recvPort, reflect.RecvDir, ch, bufferSize); ch is a
\* channel here, so selectOrMakeChan reads no slot and port.Set is the one
\* access to the graph
CAttachRecv(t) ==
    /\ cPc[t] = "attachRecv"
    /\ LET port == RecvPortOf(t).port
           sel == selectOrMakeChan(Graph, cLoc[t].ch, port, cArgs[t].b)
       IN IF validateChanDir(port, RecvDir) # Nil
          THEN Fails(t, validateChanDir(port, RecvDir)) /\ slots' = slots
          ELSE IF validateCanSet(port) # Nil
          THEN Fails(t, validateCanSet(port)) /\ slots' = slots
          ELSE IF sel.panic \/ ~Assignable(sel.ch, port)
          THEN Fails(t, Panic) /\ slots' = slots
          ELSE /\ Goes(t, IF cLoc[t].isNewChan THEN "incNew" ELSE "readList", cLoc[t])
               /\ slots' = [slots EXCEPT ![port.slot] = sel.ch.ptr]
    /\ UNCHANGED <<connections, chanListenersCount, chans, result, calls, decVars,
                   parseVars, countVars, serialized, graphLock, cArgs>>

\* line 85: n.incChanListenersCount(ch), under the lock of the table
CIncNew(t) ==
    /\ cPc[t] = "incNew"
    /\ LockFree(chanListenersCountLock)
    /\ chanListenersCount' = incChanListenersCount(chanListenersCount, cLoc[t].ch)
    /\ cPc' = [cPc EXCEPT ![t] = "readList"]
    /\ UNCHANGED <<slots, connections, chans, result, calls, decVars, parseVars,
                   countVars, serialized, graphLock, cArgs, cLoc>>

\* line 89: append reads n.connections
CReadList(t) ==
    /\ cPc[t] = "readList"
    /\ Goes(t, "writeList", [cLoc[t] EXCEPT !.conns = connections])
    /\ UNCHANGED <<graphVars, decVars, parseVars, countVars, serialized, graphLock, cArgs>>

\* lines 89-95: n.connections = the list read with the Connection appended
CWriteList(t) ==
    /\ cPc[t] = "writeList"
    /\ connections' =
           Append(cLoc[t].conns,
                  [src |-> SendAddrOf(t), tgt |-> RecvAddrOf(t),
                   channel |-> cLoc[t].ch, buffer |-> cArgs[t].b])
    /\ Goes(t, "return", [cLoc[t] EXCEPT !.appended = TRUE])
    /\ UNCHANGED <<slots, chanListenersCount, chans, result, calls, decVars,
                   parseVars, countVars, serialized, graphLock, cArgs>>

\* the call returns; the caller releases the graph-wide lock if it holds it
CReturn(t) ==
    /\ cPc[t] = "return"
    /\ graphLock' = IF graphLock = t THEN 0 ELSE graphLock
    /\ cPc' = [cPc EXCEPT ![t] = "done"]
    /\ UNCHANGED <<graphVars, decVars, parseVars, countVars, serialized, cArgs, cLoc>>

NextConc ==
    \E t \in Workers :
        \/ CLock(t) \/ CFindSend(t) \/ CFindRecv(t) \/ CIncShared(t)
        \/ CSelectSend(t) \/ CSetSend(t) \/ CAttachRecv(t) \/ CIncNew(t)
        \/ CReadList(t) \/ CWriteList(t) \/ CReturn(t)

SpecConc == InitConc /\ [][NextConc]_vars

\* ================================================================ claims

\* the recorded connections that carry channel ch
Carrying(ch) == {i \in 1..Len(connections) : connections[i].channel.ptr = ch}

\* the distinct source addresses among the connections carrying ch
SourcesOf(ch) == {connections[i].src : i \in Carrying(ch)}

\* every channel made so far or counted in the table
AllChans == (1..Len(chans)) \cup DOMAIN chanListenersCount

\* C1: after any sequence of sequential ConnectBuf calls, successful or
\* failing, the count stored for every channel equals the number of
\* distinct source addresses among the connections that carry it.
C1_RefCountIsSenders ==
    \A ch \in AllChans :
        CountOf(chanListenersCount, ch) = Cardinality(SourcesOf(ch))

\* the step is a ConnectBuf call that returned nil
Succeeds == calls' = calls + 1 /\ result'.err = Nil

\* the Connection a successful step appended
NewConn == connections'[Len(connections')]

\* the first connection recorded before the step with the sender address
\* of the new one as source, 0 if none
FirstFromSender == firstMatch(connections, NewConn.src, SendDir, 1)

\* the first connection recorded before the step with the receiver address
\* of the new one as target, 0 if none
FirstToReceiver == firstMatch(connections, NewConn.tgt, RecvDir, 1)

\* C2: fan-out. A ConnectBuf that succeeds for a sender address that is
\* already the source of a recorded Connection records the channel of the
\* first such Connection and changes no reference count; after
\* A.Out->B.In and then A.Out->C.In on a new graph there is exactly one
\* channel, carried by both Connections, and its count is 1.
C2_FanOut ==
    [][ /\ (Succeeds /\ FirstFromSender # 0) =>
             /\ NewConn.channel.ptr = connections[FirstFromSender].channel.ptr
             /\ chanListenersCount' = chanListenersCount
        /\ (/\ Succeeds /\ calls = 1 /\ Len(connections) = 1
            /\ NewConn.src = connections[1].src
            /\ NewConn.tgt # connections[1].tgt) =>
             /\ Len(chans') = 1
             /\ NewConn.channel.ptr = connections[1].channel.ptr
             /\ CountOf(chanListenersCount', NewConn.channel.ptr) = 1
      ]_vars

\* two successful calls on a new graph, same sender, different receivers:
\* one channel with count 1
C2_Witness ==
    /\ calls = 2 /\ Len(connections) = 2 /\ result.err = Nil
    /\ connections[1].src = connections[2].src
    /\ connections[1].tgt # connections[2].tgt
    /\ connections[1].channel.ptr = connections[2].channel.ptr
    /\ CountOf(chanListenersCount, connections[2].channel.ptr) = 1

\* C3: fan-in. A ConnectBuf that succeeds for a sender address that is the
\* source of no recorded Connection and a receiver address that is already
\* a target records the channel of the first Connection with that target,
\* and the count of that channel grows by exactly 1; after A.Out->B.In and
\* then C.Out->B.In on a new graph there is one channel with count 2.
C3_FanIn ==
    [][ /\ (Succeeds /\ FirstFromSender = 0 /\ FirstToReceiver # 0) =>
             /\ NewConn.channel.ptr = connections[FirstToReceiver].channel.ptr
             /\ CountOf(chanListenersCount', NewConn.channel.ptr) =
                    CountOf(chanListenersCount, NewConn.channel.ptr) + 1
             /\ \A ch \in AllChans \ {NewConn.channel.ptr} :
                    CountOf(chanListenersCount', ch) = CountOf(chanListenersCount, ch)
        /\ (/\ Succeeds /\ calls = 1 /\ Len(connections) = 1
            /\ NewConn.src # connections[1].src
            /\ NewConn.tgt = connections[1].tgt) =>
             /\ Len(chans') = 1
             /\ NewConn.channel.ptr = connections[1].channel.ptr
             /\ CountOf(chanListenersCount', NewConn.channel.ptr) = 2
      ]_vars

\* two successful calls on a new graph, different senders, same receiver:
\* one channel with count 2
C3_Witness ==
    /\ calls = 2 /\ Len(connections) = 2 /\ result.err = Nil
    /\ connections[1].src # connections[2].src
    /\ connections[1].tgt = connections[2].tgt
    /\ connections[1].channel.ptr = connections[2].channel.ptr
    /\ CountOf(chanListenersCount, connections[2].channel.ptr) = 2

\* the goroutines that call decChanListenersCount, and those that returned
Callers == {t \in Goroutines : decPc[t] # "off"}
Returned == {t \in Goroutines : decPc[t] = "done"}

\* C4: a channel shared by N fan-in senders has count N; when each sender
\* calls decChanListenersCount once, concurrently, exactly one call returns
\* true, the one of the goroutine that took the lock last, and the other
\* N-1 calls return false.
C4_LastDecrementReportsZero ==
    /\ \A t \in Returned :
           decRet[t] <=> (Len(lockOrder) = Cardinality(Callers)
                          /\ t = lockOrder[Len(lockOrder)])
    /\ Returned = Callers =>
           Cardinality({t \in Returned : decRet[t]}) = 1

\* three or more senders have all returned, and the last to take the lock
\* (the one that got true) was not the last sender wired
C4_Witness ==
    /\ Cardinality(Callers) >= 3
    /\ Returned = Callers
    /\ Cardinality(SourcesOf(OutChan(1).ptr)) = Cardinality(Callers)
    /\ lockOrder[Len(lockOrder)] # Cardinality(Callers)
    /\ decRet[lockOrder[Len(lockOrder)]]
    /\ CountOf(chanListenersCount, OutChan(1).ptr) = 0

\* what the call ConnectBuf(s, r, b) made in the current state leaves
Call(s, r, b) == ConnectBuf(Graph, s[1], s[2], r[1], r[2], b)

\* the slot an endpoint that resolves stands for
SlotOf(e, dir) == getProcPort(e[1], e[2], dir).port.slot

\* C5: whenever ConnectBuf returns nil, the sender slot and the receiver
\* slot hold the same non-nil channel, and the last entry of the connection
\* list is a new Connection with the parsed sender and receiver addresses,
\* that channel and the bufferSize argument. Stated of every call that can
\* be made in a reachable state.
C5_SuccessGuarantee ==
    calls < MaxCalls =>
        \A s \in Senders, r \in Receivers, b \in BufferSizes :
            LET g == Call(s, r, b).g
                last == g.connections[Len(g.connections)]
            IN Call(s, r, b).err = Nil =>
                 /\ Len(g.connections) = Len(connections) + 1
                 /\ last.src = parseAddress(s[1], s[2])
                 /\ last.tgt = parseAddress(r[1], r[2])
                 /\ last.buffer = b
                 /\ last.channel.ptr # 0
                 /\ g.slots[SlotOf(s, SendDir)] = last.channel.ptr
                 /\ g.slots[SlotOf(r, RecvDir)] = last.channel.ptr

\* the last Connection recorded
LastConn == connections[Len(connections)]

\* a call returned nil after an earlier one: the last Connection is that of
\* C.O -> N.I[1] with buffer 2 and both slots hold its channel
C5_Witness ==
    /\ result.err = Nil /\ Len(connections) >= 2
    /\ LastConn.src = [proc |-> "C", port |-> <<"O">>, key |-> << >>]
    /\ LastConn.tgt = [proc |-> "N", port |-> <<"I">>, key |-> <<"1">>]
    /\ LastConn.buffer = 2
    /\ LastConn.channel.ptr # 0
    /\ slots[<<"C", <<"O">> >>] = LastConn.channel.ptr
    /\ slots[<<"M", <<"I">> >>] = LastConn.channel.ptr

\* C6: every failure of ConnectBuf is a returned error, never an
\* uncontrolled termination: attaching a channel to a port slot of another
\* element type returns an error instead of panicking.
C6_NeverPanics == result.err # Panic

\* the call failed at the sender-attach step
SenderAttachFails ==
    /\ calls' = calls + 1
    /\ result'.at = "sender"
    /\ result'.err \in {NotAChannel, PortWrongDirection, PortNotAssignable}

\* C7: when ConnectBuf fails at the sender-attach step, the reference-count
\* table and every port slot are as they were before the call, also when
\* the receiver address is already the target of a recorded Connection.
C7_SenderAttachFailureLeavesNoState ==
    [][ SenderAttachFails =>
            /\ chanListenersCount' = chanListenersCount
            /\ slots' = slots ]_vars

\* the endpoint resolves as a port of direction dir
Resolves(e, dir) == getProcPort(e[1], e[2], dir).err = Nil

\* the sender endpoints that resolve to a receive-only channel port
ReceiveOnlySenders ==
    {s \in Senders : /\ Resolves(s, SendDir)
                     /\ getProcPort(s[1], s[2], SendDir).port.kind = "chan"
                     /\ getProcPort(s[1], s[2], SendDir).port.dir = RecvDir}

\* C8 as claimed: a ConnectBuf call whose sender port is receive-only
\* fails with a wrong-direction error and leaves the connection list
\* unchanged, whatever Connections were recorded before.
C8_AsClaimed ==
    [][ \A s \in ReceiveOnlySenders, r \in Receivers, b \in BufferSizes :
            Connect(s, r, b) =>
                /\ result'.err = PortWrongDirection
                /\ connections' = connections ]_vars

\* C8 amended: a ConnectBuf call whose sender port is receive-only and whose
\* receiver endpoint resolves fails with a wrong-direction error about the
\* sender and leaves the connection list unchanged, whatever Connections
\* were recorded before. Stated of every call that can be made in a
\* reachable state.
C8_DirectionEnforced ==
    calls < MaxCalls =>
        \A s \in ReceiveOnlySenders, r \in Receivers, b \in BufferSizes :
            Resolves(r, RecvDir) =>
                /\ Call(s, r, b).err = PortWrongDirection
                /\ Call(s, r, b).at = "sender"
                /\ Call(s, r, b).g.connections = connections

\* a call with a receive-only sender failed on a graph with Connections
C8_Witness ==
    /\ result.err = PortWrongDirection /\ result.at = "sender"
    /\ Len(connections) >= 2

\* what resolving endpoint e must report by the registry alone: process
\* missing, else registered by value, else no port of that name
Lacks(e, dir) ==
    IF procs[e[1]] = "net"
    THEN \A p \in (IF dir = SendDir THEN outPorts(e[1]) ELSE inPorts(e[1])) :
             p.name # e[2]
    ELSE \A f \in Fields(e[1]) : f.name # e[2]

ResolverFailure(e, dir) ==
    IF e[1] \notin DOMAIN procs THEN ProcessNotFound
    ELSE IF procs[e[1]] = "value" THEN ProcessNotSettable
    ELSE IF Lacks(e, dir) THEN PortNotFound
    ELSE Nil

\* C9: if the sender process is missing, not settable or lacks the port,
\* or the sender resolves and the same holds for the receiver, ConnectBuf
\* returns that error and leaves the connection list, the count table and
\* every slot unchanged; the checks run in the order not-found,
\* not-settable, port-not-found, and a sender failure comes first. Stated
\* of every call that can be made in a reachable state.
C9_ResolverFailureIsClean ==
    calls < MaxCalls =>
        \A s \in Senders, r \in Receivers, b \in BufferSizes :
            LET sf == ResolverFailure(s, SendDir)
                rf == ResolverFailure(r, RecvDir)
            IN /\ sf # Nil => Call(s, r, b) = Return(Graph, sf, "sender")
               /\ (sf = Nil /\ rf # Nil) =>
                      Call(s, r, b) = Return(Graph, rf, "receiver")
               /\ (sf = Nil /\ rf = Nil) =>
                      Call(s, r, b).err \notin
                          {ProcessNotFound, ProcessNotSettable, PortNotFound}

\* a call failed in the resolver of the receiver on a wired graph
C9_Witness ==
    /\ result.err = ProcessNotSettable /\ result.at = "receiver"
    /\ Len(connections) >= 1 /\ calls = Len(connections) + 1
    /\ \A ch \in AllChans :
           CountOf(chanListenersCount, ch) = Cardinality(SourcesOf(ch))

\* the capacity of channel ch among the channels made
Cap(made, ch) == made[ch].cap

\* the step records a Connection whose addresses no recorded one has
FreshAddresses == Succeeds /\ FirstFromSender = 0 /\ FirstToReceiver = 0

\* the step records a Connection that reuses a recorded channel
Reuses == Succeeds /\ (FirstFromSender # 0 \/ FirstToReceiver # 0)

\* a reusing step makes no channel and leaves the capacity of the channel
\* it records as it was
ReuseKeepsCapacity ==
    Reuses =>
        /\ chans' = chans
        /\ NewConn.channel.ptr \in 1..Len(chans)
        /\ Cap(chans', NewConn.channel.ptr) = Cap(chans, NewConn.channel.ptr)

SenderSlotEmpty ==
    \A s \in Senders :
        (Resolves(s, SendDir) /\ parseAddress(s[1], s[2]) = NewConn.src) =>
            slots[SlotOf(s, SendDir)] = 0

Positions(t, c) == {i \in 1..Len(t) : t[i] = c}
FirstOf(ps) == IF ps = {} THEN 0 ELSE CHOOSE i \in ps : \A j \in ps : i <= j
LastOf(ps) == IF ps = {} THEN 0 ELSE CHOOSE i \in ps : \A j \in ps : j <= i

\* the text between positions from and to, both excluded
Between(t, from, to) == SubSeq(t, from + 1, to - 1)

\* C11 as claimed: for every port text, the port name is the text before
\* the first '[' and the key is the substring from just after that first
\* '[' up to the last ']' of the text, also with several bracket pairs.
C11_AsClaimed ==
    parsePc = "done" =>
        LET t == parseArgs.port
            open == FirstOf(Positions(t, "["))
            close == LastOf(Positions(t, "]"))
        IN /\ open # 0 => parseRet.port = SubSeq(t, 1, open - 1)
           /\ (open # 0 /\ close > open) => parseRet.key = Between(t, open, close)

\* C11 amended: for every port text, the port name is the text before the
\* last '[' (the whole text when it has none) and the key is the substring
\* from just after the last '[' that precedes the last ']' (from the start
\* of the text when none precedes it) up to that last ']' (empty when the
\* text has no ']'); the process name is passed through.
C11_Grammar ==
    parsePc = "done" =>
        LET t == parseArgs.port
            open == LastOf(Positions(t, "["))
            close == LastOf(Positions(t, "]"))
            from == LastOf({i \in Positions(t, "[") : i < close})
        IN /\ parseRet.proc = parseArgs.proc
           /\ parseRet.port = IF open = 0 THEN t ELSE SubSeq(t, 1, open - 1)
           /\ parseRet.key = IF close = 0 THEN << >> ELSE Between(t, from, close)

\* a text with two bracket pairs was parsed: a[1][1] gives port a[1], key 1
C11_Witness ==
    /\ parsePc = "done"
    /\ parseArgs.port = <<"a", "[", "1", "]", "[", "1", "]">>
    /\ parseRet.port = <<"a", "[", "1", "]">>
    /\ parseRet.key = <<"1">>

\* text t has no bracket
BracketFree(t) == Positions(t, "[") = {} /\ Positions(t, "]") = {}

\* the texts of at most three characters
ShortTexts == UNION {[1..n -> Alphabet] : n \in 0..3}

\* two connections: the first from an address that differs from a in its
\* key alone, carrying channel 1, the second from a, carrying channel 2;
\* and the same to those addresses
Decoy(a) == [a EXCEPT !.key = Append(@, "a")]
Wire(src, tgt, ptr) ==
    [src |-> src, tgt |-> tgt, channel |-> ChanValue(ptr, BothDir, "int"), buffer |-> 0]
TwoFrom(a) == <<Wire(Decoy(a), a, 1), Wire(a, Decoy(a), 2)>>
TwoTo(a) == <<Wire(a, Decoy(a), 1), Wire(Decoy(a), a, 2)>>

\* C12: a port text with no bracket parses to {proc, port = the text,
\* key = ""}; a text name[key] with bracket-free non-empty name and key
\* parses to {proc, port = name, key = key}; and an address parsed from
\* another text that yields the same proc, port and key is equal to it and
\* finds, in findExistingChan, the channel recorded under it.
C12_SimpleForms ==
    parsePc = "done" =>
        LET t == parseArgs.port
            p == parseArgs.proc
        IN /\ BracketFree(t) => parseRet = [proc |-> p, port |-> t, key |-> << >>]
           /\ \A n \in 1..Len(t) :
                  (/\ n + 3 <= Len(t) /\ t[n + 1] = "[" /\ t[Len(t)] = "]"
                   /\ BracketFree(SubSeq(t, 1, n))
                   /\ BracketFree(Between(t, n + 1, Len(t)))) =>
                      parseRet = [proc |-> p, port |-> SubSeq(t, 1, n),
                                  key |-> Between(t, n + 1, Len(t))]
           /\ \A q \in ParseProcs, u \in ShortTexts :
                  LET a == parseAddress(q, u)
                  IN (a.proc = parseRet.proc /\ a.port = parseRet.port
                      /\ a.key = parseRet.key) =>
                         /\ a = parseRet
                         /\ findExistingChan(TwoFrom(a), parseRet, SendDir).ptr = 2
                         /\ findExistingChan(TwoTo(a), parseRet, RecvDir).ptr = 2

\* name[key] was parsed: a1[1a] gives port a1 and key 1a
C12_Witness ==
    /\ parsePc = "done"
    /\ parseArgs = [proc |-> "Q", port |-> <<"a", "1", "[", "1", "a", "]">>]
    /\ parseRet = [proc |-> "Q", port |-> <<"a", "1">>, key |-> <<"1", "a">>]

\* the step is a decChanListenersCount call on a channel whose count is 0
\* or that has no entry
DecAtZero ==
    /\ ops' = ops + 1
    /\ lastOp'.op = "dec"
    /\ CountOf(chanListenersCount, lastOp'.ch) = 0

\* C13: permissive underflow. decChanListenersCount on a channel whose
\* count is 0, or that has no entry, returns true and does not change the
\* table; so after any sequence of increments and decrements no count is
\* negative.
C13_PermissiveUnderflow ==
    [][ /\ DecAtZero => (lastOp'.ret /\ chanListenersCount' = chanListenersCount)
        /\ \A c \in DOMAIN chanListenersCount' : chanListenersCount'[c] >= 0
      ]_vars

\* a channel was counted up and down to 0 and decremented once more, and
\* the other channel, which has no entry, was decremented: both calls
\* returned true
C13_Witness ==
    /\ ops >= 4
    /\ lastOp = [op |-> "dec", ch |-> 2, ret |-> TRUE]
    /\ DOMAIN chanListenersCount = {1}
    /\ chanListenersCount[1] = 0

\* C14: the connection list is append-only and order-preserving. Every
\* ConnectBuf call either leaves the list exactly as it was, when it does
\* not return nil, or appends exactly one Connection at the end, when it
\* returns nil; no call removes, reorders or modifies a recorded Connection.
C14_AppendOnly ==
    [][ calls' = calls + 1 =>
            IF result'.err = Nil
            THEN /\ Len(connections') = Len(connections) + 1
                 /\ SubSeq(connections', 1, Len(connections)) = connections
            ELSE connections' = connections ]_vars

\* two calls recorded two different Connections and a third call failed
\* while attaching: the list still has the two, in call order
C14_Witness ==
    /\ calls = 3 /\ Len(connections) = 2
    /\ result.err \in {NotAChannel, PortWrongDirection, PortNotAssignable}
    /\ connections[1].src = [proc |-> "A", port |-> <<"O">>, key |-> << >>]
    /\ connections[2].src = [proc |-> "C", port |-> <<"O">>, key |-> << >>]

\* the port text an address was parsed from, for a plain name or name[key]
TextOf(a) ==
    IF a.key = << >> THEN a.port ELSE a.port \o <<"[">> \o a.key \o <<"]">>

\* the slot the port at address a stands for
SlotAt(a, dir) == getProcPort(a.proc, TextOf(a), dir).port.slot

\* every recorded Connection's sender slot and receiver slot hold its channel
ConnectionsWired ==
    \A i \in 1..Len(connections) :
        /\ slots[SlotAt(connections[i].src, SendDir)] = connections[i].channel.ptr
        /\ slots[SlotAt(connections[i].tgt, RecvDir)] = connections[i].channel.ptr

\* C15: slot assigned once. Once a port slot holds a channel, no later
\* ConnectBuf call makes it hold a different channel; consequently every
\* recorded Connection's sender slot and receiver slot still hold that
\* Connection's channel.
C15_SlotAssignedOnce ==
    [][ /\ \A sl \in Slots : slots[sl] # 0 => slots'[sl] = slots[sl]
        /\ ConnectionsWired' ]_vars

\* the recorded connections with source (SendDir) or target a
Matching(a, dir) ==
    {i \in 1..Len(connections) :
        (IF dir = SendDir THEN connections[i].src ELSE connections[i].tgt) = a}

\* every address recorded or named by a call
Addresses ==
    {connections[i].src : i \in 1..Len(connections)}
        \cup {connections[i].tgt : i \in 1..Len(connections)}
        \cup {parseAddress(e[1], e[2]) : e \in Senders \cup Receivers}

\* C16: reuse precedence and first match. When the sender address is the
\* source of recorded Connections and the receiver address is the target of
\* recorded Connections carrying a different channel, ConnectBuf records the
\* channel of the earliest Connection with that source, not the receiver's,
\* and changes no reference count; findExistingChan returns the channel of
\* the earliest matching Connection and an invalid value when none matches.
\* The first part is stated of every call that can be made in a reachable
\* state.
C16_ReusePrecedence ==
    /\ calls < MaxCalls =>
           \A s \in Senders, r \in Receivers, b \in BufferSizes :
               LET from == FirstOf(Matching(parseAddress(s[1], s[2]), SendDir))
                   to == FirstOf(Matching(parseAddress(r[1], r[2]), RecvDir))
                   g == Call(s, r, b).g
               IN (/\ from # 0 /\ to # 0
                   /\ connections[from].channel.ptr # connections[to].channel.ptr) =>
                      /\ g.chanListenersCount = chanListenersCount
                      /\ Call(s, r, b).err = Nil =>
                             g.connections[Len(g.connections)].channel =
                                 connections[from].channel
    /\ \A a \in Addresses, dir \in {SendDir, RecvDir} :
           findExistingChan(connections, a, dir) =
               IF Matching(a, dir) = {} THEN nilValue
               ELSE connections[FirstOf(Matching(a, dir))].channel

\* the third call named the source of the first Connection and the target
\* of the second, which carry different channels: it recorded the channel
\* of the first and no count changed
C16_Witness ==
    /\ Len(connections) = 3
    /\ connections[3].src = connections[1].src
    /\ connections[3].tgt = connections[2].tgt
    /\ connections[1].channel.ptr # connections[2].channel.ptr
    /\ connections[3].channel = connections[1].channel
    /\ CountOf(chanListenersCount, connections[1].channel.ptr) = 1
    /\ CountOf(chanListenersCount, connections[2].channel.ptr) = 1

\* the port an endpoint that resolves stands for
PortOf(e, dir) == getProcPort(e[1], e[2], dir).port

\* the error attaching a channel to port p in direction dir must give, by
\* the type of the port alone
AttachFailure(p, dir) ==
    IF p.kind # "chan" THEN NotAChannel
    ELSE IF ~(dir \subseteq p.dir) THEN PortWrongDirection
    ELSE IF ~p.canSet THEN PortNotAssignable
    ELSE Nil

\* the call ConnectBuf(s, r, b) allocates a channel for the sender and then
\* cannot attach the receiver: both endpoints resolve, no recorded
\* Connection has these addresses, the sender port can be attached and
\* holds no channel, the receiver port cannot be attached
AllocatesThenFails(s, r) ==
    /\ Resolves(s, SendDir) /\ Resolves(r, RecvDir)
    /\ Matching(parseAddress(s[1], s[2]), SendDir) = {}
    /\ Matching(parseAddress(r[1], r[2]), RecvDir) = {}
    /\ AttachFailure(PortOf(s, SendDir), SendDir) = Nil
    /\ slots[SlotOf(s, SendDir)] = 0
    /\ AttachFailure(PortOf(r, RecvDir), RecvDir) # Nil

\* C17: when ConnectBuf allocates a new channel, assigns it to the sender
\* slot and then fails to attach the receiver (receiver port not
\* receive-capable, not a channel or not assignable), it returns that
\* error, the sender slot keeps the new channel, no Connection is recorded
\* and the count table is unchanged, with no entry for that channel.
\* Stated of every call that can be made in a reachable state.
C17_ReceiverAttachFailureLeaks ==
    calls < MaxCalls =>
        \A s \in Senders, r \in Receivers, b \in BufferSizes :
            AllocatesThenFails(s, r) =>
                LET c == Call(s, r, b)
                    new == Len(chans) + 1
                IN /\ c.err = AttachFailure(PortOf(r, RecvDir), RecvDir)
                   /\ c.at = "receiver"
                   /\ Len(c.g.chans) = new
                   /\ c.g.slots[SlotOf(s, SendDir)] = new
                   /\ c.g.connections = connections
                   /\ c.g.chanListenersCount = chanListenersCount
                   /\ new \notin DOMAIN c.g.chanListenersCount

\* after a Connection was recorded, a call failed at the receiver and left
\* a channel that no Connection carries and the table does not count in a
\* sender slot
C17_Witness ==
    /\ calls = 2 /\ Len(connections) = 1 /\ Len(chans) = 2
    /\ result.at = "receiver"
    /\ result.err \in {NotAChannel, PortWrongDirection, PortNotAssignable}
    /\ \E sl \in Slots : slots[sl] = 2
    /\ Carrying(2) = {}
    /\ 2 \notin DOMAIN chanListenersCount

\* the channel the step records is held by no slot and carried by no
\* Connection before the step, and its count after the step is 1
RecordsUnusedChannel ==
    /\ \A i \in 1..Len(connections) :
           connections[i].channel.ptr # NewConn.channel.ptr
    /\ \A sl \in Slots : slots[sl] # NewConn.channel.ptr
    /\ CountOf(chanListenersCount', NewConn.channel.ptr) = 1

C19_PerAddressChannel ==
    \A i, j \in 1..Len(connections) :
        /\ connections[i].src = connections[j].src =>
               connections[i].channel.ptr = connections[j].channel.ptr
        /\ connections[i].tgt = connections[j].tgt =>
               connections[i].channel.ptr = connections[j].channel.ptr

\* the calls that have appended their Connection
Appended == {t \in Workers : cLoc[t].appended}

\* C20: ConnectBuf is not atomic without external serialization. Two calls
\* running concurrently with the same sender address and different
\* receivers can both find no channel, each allocate one, and end with two
\* Connections of that source carrying different channels, or with one
\* append lost; with each call wrapped in one graph-wide lock, Connections
\* with the same source always carry the same channel and every append is
\* in the list.
C20_SerializedIsAtomic ==
    serialized =>
        /\ \A i, j \in 1..Len(connections) :
               connections[i].src = connections[j].src =>
                   connections[i].channel.ptr = connections[j].channel.ptr
        /\ Len(connections) = Cardinality(Appended)

\* without the lock: two calls with the same sender and different
\* receivers have returned nil, each having allocated its own channel, and
\* the two Connections recorded carry different channels
C20_Witness ==
    /\ ~serialized
    /\ \A t \in {1, 2} : cPc[t] = "done" /\ cLoc[t].err = Nil /\ cLoc[t].isNewChan
    /\ cArgs[1].s = cArgs[2].s /\ cArgs[1].r # cArgs[2].r
    /\ Len(connections) = 2
    /\ connections[1].src = connections[2].src
    /\ connections[1].channel.ptr # connections[2].channel.ptr

====
